---- MODULE Spec2Model ----
(***************************************************************************)
(* A model of jattach (Go port): main's relay goroutine and the attach     *)
(* orchestration of package jvm (Jattach, jattachHotspot,                  *)
(* startAttachMechanism, connectSocket, writeCommand, readResponse).       *)
(* Bytes are their ASCII codes; a Go string or []byte is a sequence of     *)
(* them.                                                                   *)
(***************************************************************************)
EXTENDS Integers, Sequences, FiniteSets, TLC

(* ------------------------------------------------------------------ *)
(* Program constants                                                   *)
(* ------------------------------------------------------------------ *)

\* buf := make([]byte, 8192)
BufSize == 8192

\* for i := 0; i < 300; i++
PollAttempts == 300

\* ts := 20 * time.Millisecond ; ts += 20 * time.Millisecond
PollStepMs == 20

\* for i := 0; i < 4; i++  (argument slots of a request frame)
FrameSlots == 4

(* ------------------------------------------------------------------ *)
(* Bounds of the model                                                 *)
(* ------------------------------------------------------------------ *)

\* the longest streamed body the server sends, in separate writes
MaxChunks == 3

\* the most arguments (command included) handed to Jattach
MaxArgs == 5

(* ------------------------------------------------------------------ *)
(* Bytes and strings                                                   *)
(* ------------------------------------------------------------------ *)

NUL == <<0>>
NL == <<10>>

\* "load"
LoadCmd == <<108, 111, 97, 100>>

\* "threaddump"
ThreadDumpCmd == <<116, 104, 114, 101, 97, 100, 100, 117, 109, 112>>

\* "return code: "
ReturnCodePrefix == <<114, 101, 116, 117, 114, 110, 32, 99, 111, 100, 101, 58, 32>>

IsDigit(b) == b \in 48..57

\* s[from:] of Go, from counted from 0
SliceFrom(s, from) == SubSeq(s, from + 1, Len(s))

\* s[:to] of Go
SliceTo(s, to) == SubSeq(s, 1, to)

RECURSIVE Concat(_)
Concat(chunks) ==
    IF chunks = <<>> THEN <<>> ELSE Head(chunks) \o Concat(Tail(chunks))

\* strings.HasPrefix
HasPrefix(s, prefix) ==
    /\ Len(s) >= Len(prefix)
    /\ SliceTo(s, Len(prefix)) = prefix

RECURSIVE DigitsValue(_)
DigitsValue(d) ==
    IF d = <<>> THEN 0
    ELSE 10 * DigitsValue(SliceTo(d, Len(d) - 1)) + (d[Len(d)] - 48)

\* strconv.Atoi with its error dropped (result, _ := strconv.Atoi(s)): an
\* optional sign, then digits only up to the end of the string; any other
\* string is a syntax error, for which Atoi returns 0.
Atoi(s) ==
    LET signed == Len(s) > 0 /\ s[1] \in {43, 45}
        d == IF signed THEN Tail(s) ELSE s
    IN  IF d = <<>> \/ (\E k \in 1..Len(d) : ~IsDigit(d[k])) THEN 0
        ELSE IF s[1] = 45 THEN 0 - DigitsValue(d)
        ELSE DigitsValue(d)

(* ------------------------------------------------------------------ *)
(* Pure functions of the protocol engine                               *)
(* ------------------------------------------------------------------ *)

\* a writeCommand that emits a slot for every argument it is given
RECURSIVE AllArgSlots(_)
AllArgSlots(args) ==
    IF args = <<>> THEN <<>> ELSE Head(args) \o NUL \o AllArgSlots(Tail(args))

RequestFrameEveryArg(args) ==
    <<49>> \o NUL
    \o (IF Len(args) < FrameSlots
        THEN AllArgSlots(args \o [k \in 1..(FrameSlots - Len(args)) |-> <<>>])
        ELSE AllArgSlots(args))

\* the loop of writeCommand: slot i is args[i] when there is one, then a NUL
RECURSIVE FrameSlotsFrom(_, _)
FrameSlotsFrom(args, slot) ==
    IF slot >= FrameSlots THEN <<>>
    ELSE (IF slot < Len(args) THEN args[slot + 1] ELSE <<>>)
         \o NUL \o FrameSlotsFrom(args, slot + 1)

\* the request writeCommand builds: '1', NUL, then the slots
RequestFrame(args) == <<49>> \o NUL \o FrameSlotsFrom(args, 0)

\* syscall.Read(fd, b) with len(b) = room on a stream socket whose peer has
\* written the chunks of `stream` and then closed: an error, end of stream
\* (n = 0), or the first k chunks the kernel has coalesced, cut to room bytes.
ReadOutcomes(stream, room) ==
    {[n |-> 0 - 1, bytes |-> <<>>, rest |-> stream]}
    \cup
    (IF stream = <<>> \/ room = 0
     THEN {[n |-> 0, bytes |-> <<>>, rest |-> stream]}
     ELSE {LET avail == Concat(SubSeq(stream, 1, k))
               got == IF Len(avail) < room THEN Len(avail) ELSE room
               left == SliceFrom(avail, got)
           IN  [n |-> got,
                bytes |-> SliceTo(avail, got),
                rest |-> (IF left = <<>> THEN <<>> ELSE <<left>>)
                         \o SubSeq(stream, k + 1, Len(stream))]
           : k \in 1..Len(stream)})

\* the load command's accumulation loop of readResponse, as the set of its
\* outcomes: for total < len(buf)-1 { n, err = Read(fd, buf[total:]); ... }
\* followed by buf = buf[:total]
RECURSIVE LoadAccumulate(_, _, _)
LoadAccumulate(b, total, stream) ==
    IF total < Len(b) - 1
    THEN UNION {IF r.n <= 0
                THEN {[buf |-> SliceTo(b, total), stream |-> r.rest]}
                ELSE LoadAccumulate(SliceTo(b, total) \o r.bytes
                                      \o SliceFrom(b, total + r.n),
                                    total + r.n, r.rest)
                : r \in ReadOutcomes(stream, Len(b) - total)}
    ELSE {[buf |-> SliceTo(b, total), stream |-> stream]}

\* the load command's reinterpretation of the status in readResponse; buf[2]
\* of a 2-byte buf is an index out of range, a run-time panic
LoadStatus(res, b) ==
    IF res = 0 /\ Len(b) >= 2
    THEN IF HasPrefix(SliceFrom(b, 2), ReturnCodePrefix)
         THEN [panic |-> FALSE, status |-> Atoi(SliceFrom(b, 15))]
         ELSE IF Len(b) < 3
         THEN [panic |-> TRUE, status |-> res]
         ELSE IF IsDigit(b[3]) \/ b[3] = 45
         THEN [panic |-> FALSE, status |-> Atoi(SliceFrom(b, 2))]
         ELSE [panic |-> FALSE, status |-> 0 - 1]
    ELSE [panic |-> FALSE, status |-> res]

\* a readResponse that reinterprets the status for every command
IsLoadAnyCommand(args) == TRUE

\* len(args) > 0 && args[0] == "load"
IsLoad(args) == Len(args) > 0 /\ args[1] = LoadCmd

(* ------------------------------------------------------------------ *)
(* Inputs                                                              *)
(* ------------------------------------------------------------------ *)

\* an argument other than the command: "a"+digit
ExtraArg(k) == <<97, 48 + k>>

\* argv as Jattach receives it (os.Args[2:]): the command, then arguments
ArgLists ==
    {<<LoadCmd>>}
    \cup {<<ThreadDumpCmd>> \o [k \in 1..(FrameSlots - 1) |-> ExtraArg(k)]}
    \cup {<<LoadCmd>> \o [k \in 1..(MaxArgs - 1) |-> ExtraArg(k)]}

Pids == {1234}
\* the target's pid inside its own pid namespace
NsPids == {7}
\* the caller runs as root; the target as root or as another user
CallerUids == {0}
CallerGids == {0}
Uids == {0, 1000}
Gids == {0, 1000}

\* util.EnterNS: failed, entered nothing new, changed the namespace
EnterNSResults == {0 - 1, 0, 1}

\* the chunks of a streamed body: "AB", "C", "DE", then "F" for each more
BodyChunk(k) ==
    IF k = 1 THEN <<65, 66>> ELSE IF k = 2 THEN <<67>>
    ELSE IF k = 3 THEN <<68, 69>> ELSE <<70>>

Bodies == {[k \in 1..m |-> BodyChunk(k)] : m \in 1..MaxChunks}

\* what the listener writes first
FirstWrites ==
    { <<48>>,                                   \* "0"
      <<48, 10>>,                               \* "0\n"
      <<53>>,                                   \* "5"
      <<45, 49, 10>>,                           \* "-1\n"
      <<48, 10>> \o ReturnCodePrefix \o <<48>>, \* "0\nreturn code: 0"
      <<48, 10>> \o ReturnCodePrefix \o <<55, 10>>, \* "0\nreturn code: 7\n"
      <<48, 49>> \o ReturnCodePrefix \o <<48, 32, 40, 97, 41>>,
                                                \* "01return code: 0 (a)"
      <<48, 10, 45, 53>>,                       \* "0\n-5"
      <<48, 10, 45, 53, 32, 120>>,              \* "0\n-5 x"
      <<48, 10, 49, 50, 10>>,                   \* "0\n12\n"
      <<48, 10, 111, 111, 112, 115>> }          \* "0\noops"

\* the server's writes for one exchange, then it closes the connection
Responses ==
    {<<>>}
    \cup {<<f>> : f \in FirstWrites}
    \cup {<<f>> \o b : f \in {<<48>>, <<48, 10>>}, b \in Bodies}
    \cup {<<(<<48, 10>>), ReturnCodePrefix \o <<55, 10>>>>}

(* ------------------------------------------------------------------ *)
(* State                                                               *)
(* ------------------------------------------------------------------ *)

VARIABLES
    pc,          \* where the orchestration task (main, Jattach, ...) stands
    args,        \* argv of Jattach
    pid,         \* pid of Jattach
    myUID, myGID,            \* myUID, myGID of Jattach
    euid, egid,              \* the process's effective uid and gid
    targetUID, targetGID, nspid,   \* filled in by util.GetProcessInfo
    mntChanged, attachPid, tmpPath,
    calls,       \* the external calls made so far, in order
    deferred,    \* the deferred calls registered so far, oldest first
    panicking,   \* a run-time panic is unwinding the orchestration task
    outClosed,   \* how many times close(out) has run
    files,       \* the trigger files that exist
    sock,        \* what is at <tmpPath>/.java_pid<nspid>
    path,        \* path of startAttachMechanism
    sockAtStart, \* what jattachHotspot's checkSocket answered
    prefOutcome, \* what became of os.Create of the preferred path
    kills,       \* the SIGQUITs delivered: to whom, with which files present
    i, ts, sleptMs,          \* the poll loop of startAttachMechanism
    slept,       \* time.Sleep has been called
    fdOpened, fdClosed,      \* control-socket descriptors opened, closed
    writes,      \* the syscall.Write calls on the socket: request, bytes taken
    stream,      \* what the listener has written and not yet been read
    buf, n, result,          \* buf, n, result of readResponse
    firstRead,   \* the bytes of the first read of readResponse
    statusBuf,   \* buf when result was last derived from it
    drained,     \* the bytes the streaming loop has read, in order
    rpc,         \* where the relay goroutine of main stands
    data,        \* data of the relay goroutine
    stdout,      \* the bytes written to os.Stdout
    exitCode,    \* exitCode of main
    exited       \* os.Exit has ended the process

procVars == <<args, pid, myUID, myGID, targetUID, targetGID, nspid>>
credVars == <<euid, egid>>
nsVars == <<mntChanged, attachPid, tmpPath>>
fsVars == <<files, sock, path, kills, sockAtStart, prefOutcome>>
pollVars == <<i, ts, sleptMs, slept>>
fdVars == <<fdOpened, fdClosed>>
ioVars == <<writes, stream, buf, n, result, firstRead, statusBuf, drained>>
relayVars == <<rpc, data, stdout>>
endVars == <<deferred, panicking, outClosed, exitCode, exited>>

vars == <<pc, calls, procVars, credVars, nsVars, fsVars, pollVars, fdVars,
          ioVars, relayVars, endVars>>

\* /proc/<attachPid>/cwd/.attach_pid<nspid>
PreferredPath == [dir |-> "cwd", of |-> attachPid, name |-> nspid]

\* <tmpPath>/.attach_pid<nspid>, tmpPath being util.GetTmpPath(attachPid)
FallbackPath == [dir |-> "tmp", of |-> attachPid, name |-> nspid]

NoPath == [dir |-> "", of |-> 0, name |-> 0]

\* checkSocket: the path exists and is a socket
checkSocket == sock = "socket"

\* out := make(chan []byte); go func() {...}(); the call of jvm.Jattach
Init ==
    /\ pc = "GetProcessInfo"
    /\ args \in ArgLists
    /\ pid \in Pids
    /\ myUID \in CallerUids /\ myGID \in CallerGids
    /\ euid = myUID /\ egid = myGID
    /\ targetUID = myUID /\ targetGID = myGID /\ nspid = 0
    /\ mntChanged = 0 /\ attachPid = 0 /\ tmpPath = <<>>
    /\ calls = <<>> /\ deferred = <<>> /\ panicking = FALSE /\ outClosed = 0
    /\ files = {} /\ sock \in {"none", "file", "socket"} /\ path = NoPath
    /\ sockAtStart = "unchecked"
    /\ prefOutcome = "none"
    /\ kills = <<>>
    /\ i = 0 /\ ts = 0 /\ sleptMs = 0 /\ slept = FALSE
    /\ fdOpened = 0 /\ fdClosed = 0
    /\ writes = <<>> /\ stream = <<>> /\ buf = <<>> /\ n = 0 /\ result = 0
    /\ firstRead = <<>> /\ statusBuf = <<>> /\ drained = <<>>
    /\ rpc = "recv" /\ data = [shared |-> FALSE, len |-> 0, bytes |-> <<>>]
    /\ stdout = <<>>
    /\ exitCode = 0 /\ exited = FALSE

(* ------------------------------------------------------------------ *)
(* Jattach                                                             *)
(* ------------------------------------------------------------------ *)

\* a return of the orchestration task: the deferred calls run next
ReturnWith(code) ==
    /\ pc' = "return"
    /\ exitCode' = code

\* util.GetProcessInfo(pid, &targetUID, &targetGID, &nspid)
GetProcessInfo ==
    /\ pc = "GetProcessInfo" /\ ~exited
    /\ calls' = Append(calls, "GetProcessInfo")
    /\ \E found \in BOOLEAN :
         IF found
         THEN /\ targetUID' \in Uids
              /\ targetGID' \in Gids
              /\ nspid' \in NsPids
              /\ pc' = "EnterNS"
              /\ UNCHANGED exitCode
         ELSE /\ ReturnWith(1)
              /\ UNCHANGED <<targetUID, targetGID, nspid>>
    /\ UNCHANGED <<args, pid, myUID, myGID, credVars, nsVars, fsVars,
                   pollVars, fdVars, ioVars, relayVars, deferred, panicking,
                   outClosed, exited>>

\* util.EnterNS(pid, "net"); util.EnterNS(pid, "ipc");
\* mntChanged := util.EnterNS(pid, "mnt")
EnterNS ==
    /\ pc = "EnterNS" /\ ~exited
    /\ calls' = calls \o <<"EnterNS net", "EnterNS ipc", "EnterNS mnt">>
    /\ mntChanged' \in EnterNSResults
    /\ pc' = "Setegid"
    /\ UNCHANGED <<procVars, credVars, attachPid, tmpPath, fsVars, pollVars,
                   fdVars, ioVars, relayVars, endVars>>

\* a Jattach that calls Setegid whether or not the gids differ
SetegidUnconditional ==
    /\ pc = "Setegid" /\ ~exited
    /\ calls' = Append(calls, "Setegid")
    /\ \E ok \in BOOLEAN :
         IF ok
         THEN /\ egid' = targetGID
              /\ pc' = "Seteuid"
              /\ UNCHANGED exitCode
         ELSE /\ ReturnWith(1)
              /\ UNCHANGED egid
    /\ UNCHANGED <<procVars, euid, nsVars, fsVars, pollVars, fdVars, ioVars,
                   relayVars, deferred, panicking, outClosed, exited>>

\* myGID != targetGID && syscall.Setegid(int(targetGID)) != nil
Setegid ==
    /\ pc = "Setegid" /\ ~exited
    /\ IF myGID # targetGID
       THEN /\ calls' = Append(calls, "Setegid")
            /\ \E ok \in BOOLEAN :
                 IF ok
                 THEN /\ egid' = targetGID
                      /\ pc' = "Seteuid"
                      /\ UNCHANGED exitCode
                 ELSE /\ ReturnWith(1)
                      /\ UNCHANGED egid
       ELSE /\ pc' = "Seteuid"
            /\ UNCHANGED <<calls, egid, exitCode>>
    /\ UNCHANGED <<procVars, euid, nsVars, fsVars, pollVars, fdVars, ioVars,
                   relayVars, deferred, panicking, outClosed, exited>>

\* a Jattach that goes on when Seteuid fails
SeteuidFailureIgnored ==
    /\ pc = "Seteuid" /\ ~exited
    /\ IF myUID # targetUID
       THEN /\ calls' = Append(calls, "Seteuid")
            /\ \E ok \in BOOLEAN : euid' = IF ok THEN targetUID ELSE euid
       ELSE UNCHANGED <<calls, euid>>
    /\ pc' = "GetTmpPath"
    /\ UNCHANGED <<procVars, egid, nsVars, fsVars, pollVars, fdVars, ioVars,
                   relayVars, endVars>>

\* myUID != targetUID && syscall.Seteuid(int(targetUID)) != nil
Seteuid ==
    /\ pc = "Seteuid" /\ ~exited
    /\ IF myUID # targetUID
       THEN /\ calls' = Append(calls, "Seteuid")
            /\ \E ok \in BOOLEAN :
                 IF ok
                 THEN /\ euid' = targetUID
                      /\ pc' = "GetTmpPath"
                      /\ UNCHANGED exitCode
                 ELSE /\ ReturnWith(1)
                      /\ UNCHANGED euid
       ELSE /\ pc' = "GetTmpPath"
            /\ UNCHANGED <<calls, euid, exitCode>>
    /\ UNCHANGED <<procVars, egid, nsVars, fsVars, pollVars, fdVars, ioVars,
                   relayVars, deferred, panicking, outClosed, exited>>

\* a Jattach that takes every non-zero answer of EnterNS for a change
AttachPidOfNonZero(p, ns, changed) == IF changed # 0 THEN ns ELSE p

\* attachPid := pid; if mntChanged > 0 { attachPid = nspid }
AttachPidOf(p, ns, changed) == IF changed > 0 THEN ns ELSE p

\* attachPid; tmpPath := util.GetTmpPath(attachPid);
\* signal.Ignore(syscall.SIGPIPE); defer close(out)
GetTmpPath ==
    /\ pc = "GetTmpPath" /\ ~exited
    /\ attachPid' = AttachPidOf(pid, nspid, mntChanged)
    /\ tmpPath' = <<attachPid'>>
    /\ calls' = calls \o <<"GetTmpPath", "Ignore SIGPIPE">>
    /\ deferred' = Append(deferred, "close out")
    /\ pc' = "checkSocket"
    /\ UNCHANGED <<procVars, credVars, mntChanged, fsVars, pollVars, fdVars,
                   ioVars, relayVars, panicking, outClosed, exitCode, exited>>

\* a deferred call, run when its function returns or panics
RunDeferred(d) ==
    IF d = "close out"
    THEN /\ outClosed' = outClosed + 1
         /\ UNCHANGED <<fdClosed, calls>>
    ELSE /\ fdClosed' = fdClosed + 1
         /\ calls' = Append(calls, "Close")
         /\ UNCHANGED outClosed

\* the return of jattachHotspot and of Jattach: the deferred calls, newest
\* first; a panic that nothing recovers ends the process with status 2
Return ==
    /\ pc = "return" /\ ~exited
    /\ IF deferred # <<>>
       THEN /\ RunDeferred(deferred[Len(deferred)])
            /\ deferred' = SliceTo(deferred, Len(deferred) - 1)
            /\ UNCHANGED <<pc, exitCode>>
       ELSE /\ pc' = "exit"
            /\ exitCode' = IF panicking THEN 2 ELSE exitCode
            /\ UNCHANGED <<deferred, outClosed, fdClosed, calls>>
    /\ UNCHANGED <<procVars, credVars, nsVars, fsVars, pollVars, fdOpened,
                   ioVars, relayVars, panicking, exited>>

\* os.Exit(exitCode)
Exit ==
    /\ pc = "exit" /\ ~exited
    /\ exited' = TRUE
    /\ pc' = "exited"
    /\ UNCHANGED <<calls, procVars, credVars, nsVars, fsVars, pollVars,
                   fdVars, ioVars, relayVars, deferred, panicking, outClosed,
                   exitCode>>

(* ------------------------------------------------------------------ *)
(* jattachHotspot and startAttachMechanism                             *)
(* ------------------------------------------------------------------ *)

\* a jattachHotspot that starts the attach mechanism whatever checkSocket says
CheckSocketThenStartAnyway ==
    /\ pc = "checkSocket" /\ ~exited
    /\ sockAtStart' = IF checkSocket THEN "open" ELSE "absent"
    /\ pc' = "CreatePreferred"
    /\ UNCHANGED <<calls, procVars, credVars, nsVars, files, sock, path,
                   kills, prefOutcome, pollVars, fdVars, ioVars, relayVars,
                   endVars>>

\* if !checkSocket(nspid, tmpPath) && !startAttachMechanism(...)
CheckSocket ==
    /\ pc = "checkSocket" /\ ~exited
    /\ sockAtStart' = IF checkSocket THEN "open" ELSE "absent"
    /\ pc' = IF checkSocket THEN "connect" ELSE "CreatePreferred"
    /\ UNCHANGED <<calls, procVars, credVars, nsVars, files, sock, path,
                   kills, prefOutcome, pollVars, fdVars, ioVars, relayVars,
                   endVars>>

\* what os.Create, fd.Close and getFileOwner make of the preferred path:
\* not created; created and owned by the caller; created and owned by
\* someone else; created, by either owner, and fd.Close failed
CreateOutcomes ==
    {"error", "mine", "other", "mine, close failed", "other, close failed"}

\* err != nil || (fd.Close() == nil && getFileOwner(path) != os.Geteuid())
PreferredRejected(outcome) == outcome \in {"error", "other"}

\* path := /proc/<attachPid>/cwd/.attach_pid<nspid>; os.Create(path); when
\* that is rejected, os.Remove(path) and path = the fallback
CreatePreferred ==
    /\ pc = "CreatePreferred" /\ ~exited
    /\ \E outcome \in CreateOutcomes :
         /\ prefOutcome' = outcome
         /\ IF PreferredRejected(outcome)
            THEN /\ files' = files \ {PreferredPath}
                 /\ calls' = calls \o <<"Create preferred", "Remove preferred">>
                 /\ path' = FallbackPath
                 /\ pc' = "CreateFallback"
            ELSE /\ files' = files \cup {PreferredPath}
                 /\ calls' = Append(calls, "Create preferred")
                 /\ path' = PreferredPath
                 /\ pc' = "Kill"
    /\ UNCHANGED <<procVars, credVars, nsVars, sock, kills, sockAtStart,
                   pollVars, fdVars, ioVars, relayVars, endVars>>

\* a startAttachMechanism that goes on when the fallback cannot be created
CreateFallbackErrorIgnored ==
    /\ pc = "CreateFallback" /\ ~exited
    /\ calls' = Append(calls, "Create fallback")
    /\ \E ok \in BOOLEAN : files' = IF ok THEN files \cup {path} ELSE files
    /\ pc' = "Kill"
    /\ UNCHANGED <<procVars, credVars, nsVars, sock, path, kills, sockAtStart,
                   prefOutcome, pollVars, fdVars, ioVars, relayVars, endVars>>

\* fd, err = os.Create(path); if err != nil { return false }; fd.Close()
CreateFallback ==
    /\ pc = "CreateFallback" /\ ~exited
    /\ calls' = Append(calls, "Create fallback")
    /\ \E ok \in BOOLEAN :
         IF ok
         THEN /\ files' = files \cup {path}
              /\ pc' = "Kill"
              /\ UNCHANGED exitCode
         ELSE /\ ReturnWith(1)
              /\ UNCHANGED files
    /\ UNCHANGED <<procVars, credVars, nsVars, sock, path, kills, sockAtStart,
                   prefOutcome, pollVars, fdVars, ioVars, relayVars,
                   deferred, panicking, outClosed, exited>>

\* a startAttachMechanism that signals attachPid
KillAttachPid ==
    /\ pc = "Kill" /\ ~exited
    /\ kills' = Append(kills, [pid |-> attachPid, files |-> files])
    /\ calls' = Append(calls, "Kill")
    /\ ts' = PollStepMs
    /\ i' = 0
    /\ pc' = "Poll"
    /\ UNCHANGED <<procVars, credVars, nsVars, files, sock, path, sockAtStart,
                   prefOutcome, sleptMs, slept, fdVars, ioVars, relayVars,
                   endVars>>

\* syscall.Kill(pid, syscall.SIGQUIT); ts := 20 * time.Millisecond; i := 0
Kill ==
    /\ pc = "Kill" /\ ~exited
    /\ kills' = Append(kills, [pid |-> pid, files |-> files])
    /\ calls' = Append(calls, "Kill")
    /\ ts' = PollStepMs
    /\ i' = 0
    /\ pc' = "Poll"
    /\ UNCHANGED <<procVars, credVars, nsVars, files, sock, path, sockAtStart,
                   prefOutcome, sleptMs, slept, fdVars, ioVars, relayVars,
                   endVars>>

\* HotSpot starts its attach listener in response to SIGQUIT if it sees the
\* .attach_pid file
JvmStartListener ==
    /\ sock = "none"
    /\ \E k \in 1..Len(kills) : kills[k].pid = pid /\ kills[k].files # {}
    /\ sock' = "socket"
    /\ UNCHANGED <<pc, calls, procVars, credVars, nsVars, files, path, kills,
                   sockAtStart, prefOutcome, pollVars, fdVars, ioVars,
                   relayVars, endVars>>

\* a poll loop that sleeps the same 20ms every turn
PollFixedSleep ==
    /\ pc = "Poll" /\ ~exited
    /\ i < PollAttempts
    /\ slept' = TRUE
    /\ IF checkSocket
       THEN /\ files' = files \ {path}
            /\ calls' = Append(calls, "Remove trigger")
            /\ pc' = "connect"
            /\ i' = 0 /\ ts' = 0 /\ sleptMs' = 0
            /\ prefOutcome' = "none"
       ELSE /\ sleptMs' = sleptMs + ts
            /\ i' = i + 1
            /\ UNCHANGED <<files, calls, pc, prefOutcome, ts>>
    /\ UNCHANGED <<procVars, credVars, nsVars, sock, path, kills, sockAtStart,
                   fdVars, ioVars, relayVars, endVars>>

\* one turn of the poll loop: time.Sleep(ts); if checkSocket(nspid, tmpPath)
\* { os.Remove(path); return true }; ts += 20ms; i++
Poll ==
    /\ pc = "Poll" /\ ~exited
    /\ i < PollAttempts
    /\ slept' = TRUE
    /\ IF checkSocket
       THEN /\ files' = files \ {path}
            /\ calls' = Append(calls, "Remove trigger")
            /\ pc' = "connect"
            /\ i' = 0 /\ ts' = 0 /\ sleptMs' = 0
            /\ prefOutcome' = "none"
       ELSE /\ sleptMs' = sleptMs + ts
            /\ ts' = ts + PollStepMs
            /\ i' = i + 1
            /\ UNCHANGED <<files, calls, pc, prefOutcome>>
    /\ UNCHANGED <<procVars, credVars, nsVars, sock, path, kills, sockAtStart,
                   fdVars, ioVars, relayVars, endVars>>

\* a startAttachMechanism that forgets the trigger file when it gives up
PollGiveUpLeavesFile ==
    /\ pc = "Poll" /\ ~exited
    /\ ~(i < PollAttempts)
    /\ ReturnWith(1)
    /\ UNCHANGED <<calls, procVars, credVars, nsVars, fsVars, pollVars,
                   fdVars, ioVars, relayVars, deferred, panicking, outClosed,
                   exited>>

\* the loop is over: os.Remove(path); return false
PollGiveUp ==
    /\ pc = "Poll" /\ ~exited
    /\ ~(i < PollAttempts)
    /\ files' = files \ {path}
    /\ calls' = Append(calls, "Remove trigger")
    /\ ReturnWith(1)
    /\ UNCHANGED <<procVars, credVars, nsVars, sock, path, kills, sockAtStart,
                   prefOutcome, pollVars, fdVars, ioVars, relayVars,
                   deferred, panicking, outClosed, exited>>

\* a connectSocket that does not close the descriptor when Connect fails
ConnectSocketLeaksOnFailure ==
    /\ pc = "connect" /\ ~exited
    /\ \E outcome \in {"socket failed", "connect failed", "connected"} :
         IF outcome = "socket failed"
         THEN /\ calls' = Append(calls, "Socket")
              /\ ReturnWith(1)
              /\ UNCHANGED <<fdVars, deferred>>
         ELSE IF outcome = "connect failed"
         THEN /\ calls' = calls \o <<"Socket", "Connect">>
              /\ fdOpened' = fdOpened + 1
              /\ ReturnWith(1)
              /\ UNCHANGED <<fdClosed, deferred>>
         ELSE /\ calls' = calls \o <<"Socket", "Connect">>
              /\ fdOpened' = fdOpened + 1
              /\ deferred' = Append(deferred, "close fd")
              /\ pc' = "write"
              /\ UNCHANGED <<fdClosed, exitCode>>
    /\ UNCHANGED <<procVars, credVars, nsVars, fsVars, pollVars, ioVars,
                   relayVars, panicking, outClosed, exited>>

\* connectSocket, and defer syscall.Close(fd) of jattachHotspot
ConnectSocket ==
    /\ pc = "connect" /\ ~exited
    /\ \E outcome \in {"socket failed", "connect failed", "connected"} :
         IF outcome = "socket failed"
         THEN /\ calls' = Append(calls, "Socket")
              /\ ReturnWith(1)
              /\ UNCHANGED <<fdVars, deferred>>
         ELSE IF outcome = "connect failed"
         THEN /\ calls' = calls \o <<"Socket", "Connect", "Close">>
              /\ fdOpened' = fdOpened + 1
              /\ fdClosed' = fdClosed + 1
              /\ ReturnWith(1)
              /\ UNCHANGED deferred
         ELSE /\ calls' = calls \o <<"Socket", "Connect">>
              /\ fdOpened' = fdOpened + 1
              /\ deferred' = Append(deferred, "close fd")
              /\ pc' = "write"
              /\ UNCHANGED <<fdClosed, exitCode>>
    /\ UNCHANGED <<procVars, credVars, nsVars, fsVars, pollVars, ioVars,
                   relayVars, panicking, outClosed, exited>>

(* ------------------------------------------------------------------ *)
(* writeCommand and readResponse                                       *)
(* ------------------------------------------------------------------ *)

\* what syscall.Write(fd, request) reports: an error, or the number of bytes
\* it took, which may be fewer than len(request)
WriteOutcomes(request) == {0 - 1, 1, Len(request)}

\* writeCommand(fd, args): one syscall.Write of the request; only its error
\* is looked at. The listener answers a request it received whole.
WriteCommand ==
    /\ pc = "write" /\ ~exited
    /\ calls' = Append(calls, "Write")
    /\ \E w \in WriteOutcomes(RequestFrame(args)) :
         /\ writes' = Append(writes, [request |-> RequestFrame(args),
                                       taken |-> w])
         /\ IF w < 0
            THEN /\ ReturnWith(1)
                 /\ UNCHANGED stream
            ELSE /\ IF w = Len(RequestFrame(args))
                    THEN stream' \in Responses
                    ELSE stream' = <<>>
                 /\ pc' = "read"
                 /\ UNCHANGED exitCode
    /\ UNCHANGED <<procVars, credVars, nsVars, fsVars, pollVars, fdVars,
                   buf, n, result, firstRead, statusBuf, drained, relayVars,
                   deferred,
                   panicking, outClosed, exited>>

\* a readResponse that goes on to the end of the stream when its first read
\* fails or is empty
ReadStatusFailureGoesOn ==
    /\ pc = "read" /\ ~exited
    /\ calls' = Append(calls, "Read")
    /\ \E r \in ReadOutcomes(stream, BufSize) :
         IF r.n <= 0
         THEN /\ pc' = "sendNewline"
              /\ UNCHANGED <<stream, buf, n, result, firstRead, statusBuf,
                             exitCode>>
         ELSE /\ buf' = r.bytes
              /\ n' = r.n
              /\ firstRead' = r.bytes
              /\ statusBuf' = r.bytes
              /\ stream' = r.rest
              /\ result' = Atoi(r.bytes)
              /\ pc' = IF IsLoad(args) THEN "load" ELSE "stream"
              /\ UNCHANGED exitCode
    /\ UNCHANGED <<procVars, credVars, nsVars, fsVars, pollVars,
                   fdVars, writes, drained, relayVars, deferred, panicking,
                   outClosed, exited>>

\* the first read of readResponse and result, _ := strconv.Atoi(string(buf[:n]))
ReadStatus ==
    /\ pc = "read" /\ ~exited
    /\ calls' = Append(calls, "Read")
    /\ \E r \in ReadOutcomes(stream, BufSize) :
         IF r.n <= 0
         THEN /\ ReturnWith(1)
              /\ UNCHANGED <<stream, buf, n, result, firstRead, statusBuf>>
         ELSE /\ buf' = r.bytes
              /\ n' = r.n
              /\ firstRead' = r.bytes
              /\ statusBuf' = r.bytes
              /\ stream' = r.rest
              /\ result' = Atoi(r.bytes)
              /\ pc' = IF IsLoad(args) THEN "load" ELSE "stream"
              /\ UNCHANGED exitCode
    /\ UNCHANGED <<procVars, credVars, nsVars, fsVars, pollVars,
                   fdVars, writes, drained, relayVars, deferred, panicking,
                   outClosed, exited>>

\* if len(args) > 0 && args[0] == "load" { ... }: the accumulation loop and
\* the reinterpretation of the status
LoadResponse ==
    /\ pc = "load" /\ ~exited
    /\ \E a \in LoadAccumulate(buf, n, stream) :
         /\ buf' = a.buf
         /\ statusBuf' = a.buf
         /\ stream' = a.stream
         /\ IF LoadStatus(result, a.buf).panic
            THEN /\ panicking' = TRUE
                 /\ pc' = "return"
                 /\ UNCHANGED result
            ELSE /\ result' = LoadStatus(result, a.buf).status
                 /\ pc' = "stream"
                 /\ UNCHANGED panicking
    /\ UNCHANGED <<calls, procVars, credVars, nsVars, fsVars, pollVars,
                   fdVars, writes, n, firstRead, drained, relayVars, deferred,
                   outClosed, exitCode, exited>>

\* n, err := syscall.Read(fd, buf); if n == 0 || err != nil { break }
StreamRead ==
    /\ pc = "stream" /\ ~exited
    /\ \E r \in ReadOutcomes(stream, Len(buf)) :
         IF r.n <= 0
         THEN /\ pc' = "sendNewline"
              /\ UNCHANGED <<stream, buf, n, drained>>
         ELSE /\ buf' = r.bytes \o SliceFrom(buf, r.n)
              /\ n' = r.n
              /\ stream' = r.rest
              /\ drained' = drained \o r.bytes
              /\ pc' = "sendChunk"
    /\ UNCHANGED <<calls, procVars, credVars, nsVars, fsVars, pollVars,
                   fdVars, writes, result, firstRead, statusBuf, relayVars,
                   endVars>>

\* out <- buf[:n] meeting the relay's receive: the message is a slice of
\* buf, not a copy of its bytes
SendChunk ==
    /\ pc = "sendChunk" /\ ~exited
    /\ rpc = "recv"
    /\ data' = [shared |-> TRUE, len |-> n, bytes |-> <<>>]
    /\ rpc' = "write"
    /\ pc' = "stream"
    /\ UNCHANGED <<calls, procVars, credVars, nsVars, fsVars, pollVars,
                   fdVars, ioVars, stdout, endVars>>

\* out <- []byte(fmt.Sprintln()) meeting the relay's receive; return result
SendNewline ==
    /\ pc = "sendNewline" /\ ~exited
    /\ rpc = "recv"
    /\ data' = [shared |-> FALSE, len |-> 1, bytes |-> NL]
    /\ rpc' = "write"
    /\ ReturnWith(result)
    /\ UNCHANGED <<calls, procVars, credVars, nsVars, fsVars, pollVars,
                   fdVars, ioVars, stdout, deferred, panicking, outClosed,
                   exited>>

(* ------------------------------------------------------------------ *)
(* The relay goroutine of main                                         *)
(* ------------------------------------------------------------------ *)

\* the bytes of a received message when they are read
MessageBytes(d) == IF d.shared THEN SliceTo(buf, d.len) ELSE d.bytes

\* os.Stdout.Write(data)
RelayWrite ==
    /\ rpc = "write" /\ ~exited
    /\ stdout' = stdout \o MessageBytes(data)
    /\ rpc' = "recv"
    /\ UNCHANGED <<pc, calls, procVars, credVars, nsVars, fsVars, pollVars,
                   fdVars, ioVars, data, endVars>>

\* for data := range out ends when out is closed
RelayEnd ==
    /\ rpc = "recv" /\ ~exited
    /\ outClosed > 0
    /\ rpc' = "done"
    /\ UNCHANGED <<pc, calls, procVars, credVars, nsVars, fsVars, pollVars,
                   fdVars, ioVars, data, stdout, endVars>>

(* ------------------------------------------------------------------ *)
(* Specification                                                       *)
(* ------------------------------------------------------------------ *)

Next ==
    \/ GetProcessInfo
    \/ EnterNS
    \/ Setegid
    \/ Seteuid
    \/ GetTmpPath
    \/ CheckSocket
    \/ CreatePreferred
    \/ CreateFallback
    \/ Kill
    \/ JvmStartListener
    \/ Poll
    \/ PollGiveUp
    \/ ConnectSocket
    \/ WriteCommand
    \/ ReadStatus
    \/ LoadResponse
    \/ StreamRead
    \/ SendChunk
    \/ SendNewline
    \/ Return
    \/ Exit
    \/ RelayWrite
    \/ RelayEnd

Spec == Init /\ [][Next]_vars

(* ------------------------------------------------------------------ *)
(* writeCommand on its own: every argv up to MaxArgs arguments          *)
(* ------------------------------------------------------------------ *)

\* the arguments a caller of jvm.Jattach may pass: a command, "a", ""
ArgPool == {LoadCmd, <<97>>, <<>>}

AnyArgLists == UNION {[1..m -> ArgPool] : m \in 0..MaxArgs}

\* jattachHotspot at its call of writeCommand, the socket having been open
FrameInit ==
    /\ pc = "write"
    /\ args \in AnyArgLists
    /\ pid \in Pids
    /\ myUID \in CallerUids /\ myGID \in CallerGids
    /\ euid = myUID /\ egid = myGID
    /\ targetUID = myUID /\ targetGID = myGID /\ nspid \in NsPids
    /\ mntChanged = 0 /\ attachPid = pid /\ tmpPath = <<pid>>
    /\ calls = <<"GetProcessInfo", "EnterNS net", "EnterNS ipc",
                 "EnterNS mnt", "GetTmpPath", "Ignore SIGPIPE", "Socket",
                 "Connect">>
    /\ deferred = <<"close out", "close fd">>
    /\ panicking = FALSE /\ outClosed = 0
    /\ files = {} /\ sock = "socket" /\ path = NoPath
    /\ sockAtStart = "open" /\ prefOutcome = "none"
    /\ kills = <<>>
    /\ i = 0 /\ ts = 0 /\ sleptMs = 0 /\ slept = FALSE
    /\ fdOpened = 1 /\ fdClosed = 0
    /\ writes = <<>> /\ stream = <<>> /\ buf = <<>> /\ n = 0 /\ result = 0
    /\ firstRead = <<>> /\ statusBuf = <<>> /\ drained = <<>>
    /\ rpc = "recv" /\ data = [shared |-> FALSE, len |-> 0, bytes |-> <<>>]
    /\ stdout = <<>>
    /\ exitCode = 0 /\ exited = FALSE

FrameNext == WriteCommand

FrameSpec == FrameInit /\ [][FrameNext]_vars

(* ------------------------------------------------------------------ *)
(* Properties                                                          *)
(* ------------------------------------------------------------------ *)

IsPrefixOf(p, s) == Len(p) <= Len(s) /\ SliceTo(s, Len(p)) = p

Called(name) == \E k \in 1..Len(calls) : calls[k] = name

\* the orchestration task has returned from Jattach
Returned == pc \in {"exit", "exited"}

\* readResponse ran to its end: the newline is the last message it sent
Completed == ~data.shared /\ data.bytes = NL

\* C1: whatever exit path Jattach takes, out has been closed exactly once by
\* the time Jattach returns.
C1_OutClosedOnceOnEveryReturn == Returned => outClosed = 1

\* C2: under every interleaving of readResponse and the relay, what the relay
\* has written is the streamed reads in order, and once the relay is over it
\* is all of them followed by exactly one newline.
C2_RelayedIsTheReadsThenNewline ==
    /\ IsPrefixOf(stdout, drained \o NL)
    /\ (Completed /\ rpc = "done") => stdout = drained \o NL

\* C3: on a completed exchange every message put on the sink has been written
\* to standard output when the process exits: stdout is the streamed text and
\* the newline.
C3_StdoutCompleteAtExit == (exited /\ Completed) => stdout = drained \o NL

RECURSIVE DigitRun(_)
\* the digits s starts with
DigitRun(s) ==
    IF s = <<>> \/ ~IsDigit(s[1]) THEN <<>> ELSE <<s[1]>> \o DigitRun(Tail(s))

\* the integer a text starts with: an optional minus sign and the digits
\* after it ("-5 extra text" is -5)
LeadingInteger(s) ==
    IF s # <<>> /\ s[1] = 45 THEN 0 - DigitsValue(DigitRun(Tail(s)))
    ELSE DigitsValue(DigitRun(s))

\* the status the load command's reply stands for, t being the text after
\* the 2-byte header
LoadStatusOfText(t) ==
    IF HasPrefix(t, ReturnCodePrefix)
    THEN LeadingInteger(SliceFrom(t, Len(ReturnCodePrefix)))
    ELSE IF t # <<>> /\ (IsDigit(t[1]) \/ t[1] = 45)
    THEN LeadingInteger(t)
    ELSE 0 - 1

\* readResponse has resolved the status and is streaming
StatusResolved == pc \in {"stream", "sendChunk", "sendNewline"}

\* C4: for load, the resolved status is the integer after "return code: ",
\* else the integer the text after the 2-byte header starts with, else -1.
C4_LoadStatusFollowsText ==
    (StatusResolved /\ args # <<>> /\ args[1] = LoadCmd /\ Len(statusBuf) >= 2)
        => result = LoadStatusOfText(SliceFrom(statusBuf, 2))

\* slot k (from 1) of the frame of argv a: its bytes, or nothing, then a NUL
SlotOf(a, k) == (IF k <= Len(a) THEN a[k] ELSE <<>>) \o <<0>>

\* C5: the frame is '1', NUL and exactly 4 slots, slot i being args[i] or
\* empty, each closed by a NUL; later arguments are left out; the frame is
\* handed to one write.
C5_FrameHasFourSlots ==
    /\ Len(writes) <= 1
    /\ \A k \in 1..Len(writes) :
         writes[k].request =
            <<49, 0>> \o SlotOf(args, 1) \o SlotOf(args, 2)
                      \o SlotOf(args, 3) \o SlotOf(args, 4)

C5_FrameOfFiveArgsWritten ==
    /\ Len(args) = 5 /\ \A k \in 1..5 : args[k] # <<>>
    /\ Len(writes) = 1
    /\ writes[1].taken = Len(writes[1].request)

TriggerCalls ==
    {"Create preferred", "Remove preferred", "Create fallback",
     "Remove trigger", "Kill"}

\* C6: when the control socket is there at the start of jattachHotspot, no
\* trigger file is created or removed, no signal is sent, nothing sleeps,
\* and the engine is at connect or past it.
C6_OpenSocketGoesStraightToConnect ==
    sockAtStart = "open" =>
        /\ files = {} /\ kills = <<>> /\ ~slept /\ path = NoPath
        /\ \A c \in TriggerCalls : ~Called(c)
        /\ pc \notin {"CreatePreferred", "CreateFallback", "Kill", "Poll"}

C6_ConnectedToOpenSocket ==
    sockAtStart = "open" /\ Called("Connect") /\ pc = "write"

\* startAttachMechanism was called and has returned
AttachMechanismReturned ==
    /\ sockAtStart = "absent"
    /\ pc \notin {"CreatePreferred", "CreateFallback", "Kill", "Poll"}

\* C7: after startAttachMechanism returns, on every outcome, no trigger file
\* is left at the preferred or at the fallback path.
C7_NoTriggerFileLeft == AttachMechanismReturned => files = {}

C7_GaveUpOnFallbackFile ==
    /\ AttachMechanismReturned
    /\ path = FallbackPath /\ Called("Create fallback")
    /\ i = PollAttempts /\ exitCode = 1

\* a text that is the decimal form of an integer: digits, which a sign may
\* precede
IsDecimalText(s) ==
    LET d == IF s # <<>> /\ s[1] \in {43, 45} THEN Tail(s) ELSE s
    IN  d # <<>> /\ \A k \in 1..Len(d) : IsDigit(d[k])

\* the integer a text is the decimal form of, 0 when it is of none
DecimalOrZero(s) ==
    IF ~IsDecimalText(s) THEN 0
    ELSE IF s[1] = 43 THEN LeadingInteger(Tail(s))
    ELSE LeadingInteger(s)

\* C8: for a command other than load, on a completed exchange, Jattach
\* returns the whole first read parsed as a decimal integer, 0 when it is
\* not one.
C8_NonLoadExitCodeIsFirstRead ==
    (Returned /\ Completed /\ ~(args # <<>> /\ args[1] = LoadCmd))
        => exitCode = DecimalOrZero(firstRead)

C8_NonLoadReturnedFive ==
    /\ Returned /\ Completed
    /\ args # <<>> /\ args[1] = ThreadDumpCmd
    /\ firstRead = <<53>> /\ exitCode = 5

\* C9: Setegid is not called when the gids are equal, nor Seteuid when the
\* uids are.
C9_NoSwitchWhenEqual ==
    /\ myGID = targetGID => ~Called("Setegid")
    /\ myUID = targetUID => ~Called("Seteuid")

C9_BothEqualPastCredentials ==
    /\ myGID = targetGID /\ myUID = targetUID
    /\ Called("GetTmpPath")

SetegidFailed == Called("Setegid") /\ pc # "Setegid" /\ egid # targetGID
SeteuidFailed == Called("Seteuid") /\ pc # "Seteuid" /\ euid # targetUID

\* C10: Seteuid is called only after Setegid succeeded or was not needed, and
\* a failed switch makes Jattach return 1 with no temp path resolved, no
\* trigger file touched, no signal sent and no socket opened.
C10_GidFirstAndFailureIsFatal ==
    /\ Called("Seteuid") =>
         /\ egid = targetGID
         /\ \A k \in 1..Len(calls) :
              calls[k] = "Setegid" => \E j \in (k + 1)..Len(calls) :
                                         calls[j] = "Seteuid"
    /\ (SetegidFailed \/ SeteuidFailed) =>
         /\ pc \in {"return", "exit", "exited"} /\ exitCode = 1
         /\ tmpPath = <<>> /\ files = {} /\ kills = <<>> /\ fdOpened = 0
         /\ \A c \in TriggerCalls \cup {"GetTmpPath", "Socket", "Connect"} :
              ~Called(c)

C10_SeteuidFailedAfterSetegid ==
    /\ Called("Setegid") /\ egid = targetGID
    /\ SeteuidFailed /\ exited /\ exitCode = 1

\* C11: attachPid, the pid of the temp-path lookup and of the /proc/.../cwd
\* trigger path, is the namespaced pid exactly when EnterNS reported that the
\* mount namespace changed, and the requested pid otherwise (a failed entry
\* and an entry that changed nothing included).
C11_AttachPidFollowsMntChange ==
    Called("GetTmpPath") =>
        /\ attachPid = (IF mntChanged = 1 THEN nspid ELSE pid)
        /\ tmpPath = <<attachPid>>
        /\ path \in {NoPath,
                     [dir |-> "cwd", of |-> attachPid, name |-> nspid],
                     [dir |-> "tmp", of |-> attachPid, name |-> nspid]}

C11_FailedEntryKeepsPid ==
    /\ Called("GetTmpPath") /\ mntChanged = 0 - 1 /\ nspid # pid
    /\ attachPid = pid /\ path.dir = "cwd" /\ path.of = pid

\* C12, as claimed: the SIGQUIT that starts the listener goes to attachPid.
C12_SignalGoesToAttachPid ==
    \A k \in 1..Len(kills) : kills[k].pid = attachPid

\* C12, amended: the SIGQUIT goes to the requested pid, whether or not the
\* mount namespace changed.
C12_SignalGoesToRequestedPid ==
    \A k \in 1..Len(kills) : kills[k].pid = pid

C12_SignalledWithChangedMount ==
    /\ Len(kills) = 1 /\ mntChanged = 1 /\ attachPid = nspid /\ attachPid # pid
    /\ kills[1].pid = pid

\* startAttachMechanism ran out of attempts
GaveUp == pc \in {"return", "exit", "exited"} /\ i = 300

\* in the poll loop after i checks that saw nothing: the next sleep is
\* 20ms * (i + 1), the sleeps so far add up to 20 + 40 + ... + 20i, and there
\* are at most 300 checks
PollBackoff ==
    pc = "Poll" =>
        /\ i \in 0..300
        /\ ts = 20 * (i + 1)
        /\ sleptMs = 10 * i * (i + 1)

\* a turn of the loop that stays in the loop saw no socket, and a check that
\* sees the socket is the last one
PollStopsAtFirstSight ==
    /\ (pc = "Poll" /\ pc' = "Poll" /\ i' # i) => (sock # "socket" /\ i' = i + 1)
    /\ (pc = "Poll" /\ sock = "socket" /\ i < 300) => (pc' # "Poll" \/ UNCHANGED vars)

\* C13, as claimed: 20ms before the first check, 20ms more before each next
\* one, at most 300 checks, and about 15 seconds (15,000 ms, give or take a
\* third) slept in all when the socket never appears.
C13_GivesUpAfterAbout15Seconds ==
    /\ PollBackoff
    /\ GaveUp => sleptMs \in 10000..20000

\* C13, amended: the same backoff, the loop stops at the first check that
\* sees the socket, and the sleeps add up to 903,000 ms (about 15 minutes)
\* when the socket never appears.
C13_GivesUpAfter903Seconds ==
    /\ [](PollBackoff /\ (GaveUp => sleptMs = 903000))
    /\ [][PollStopsAtFirstSight]_vars

C13_GaveUpOnPreferredFile ==
    GaveUp /\ path.dir = "cwd" /\ sleptMs = 903000 /\ exitCode = 1

\* the command is load (args[0] == "load")
LoadCommand == args # <<>> /\ args[1] = LoadCmd

\* readResponse has just derived the status: it streams and has drained
\* nothing yet, or the derivation panicked
StatusJustDerived == (pc = "stream" /\ drained = <<>>) \/ panicking

\* C14: for load, when the socket still has data after the first read of n
\* bytes, the status is derived from a buffer of more than n bytes.
C14_LoadReadsOnBeforeStatus ==
    (LoadCommand /\ StatusJustDerived /\ stream # <<>>)
        => Len(statusBuf) > Len(firstRead)

\* C15: for load, whatever the first read of 1 byte or more holds,
\* readResponse derives the status without indexing past the received data.
C15_LoadStatusStaysInBounds ==
    (LoadCommand /\ Len(firstRead) >= 1) => ~panicking

\* the one write took fewer bytes than the frame has, or failed
WriteFellShort ==
    Len(writes) = 1 /\ writes[1].taken # Len(writes[1].request)

\* C16: when the write of the frame fails or is short, nothing is read from
\* the socket and Jattach returns 1.
C16_ShortWriteIsFatal ==
    WriteFellShort => (~Called("Read") /\ (Returned => exitCode = 1))

\* how often a call was made
CallCount(name) == Cardinality({k \in 1..Len(calls) : calls[k] = name})

\* where a call was first made, 0 when it was not
FirstCall(name) ==
    IF Called(name) THEN CHOOSE k \in 1..Len(calls) :
                            calls[k] = name /\ \A j \in 1..(k - 1) : calls[j] # name
    ELSE 0

\* b was called only after a
CalledAfter(a, b) == Called(b) => (Called(a) /\ FirstCall(a) < FirstCall(b))

\* a message went to the output sink
SentToSink == data.len # 0 \/ drained # <<>> \/ stdout # <<>>

\* startAttachMechanism returned false
ListenerStartFailed ==
    \/ GaveUp
    \/ Called("Create fallback") /\ ~Called("Kill")
         /\ pc \notin {"CreateFallback", "Kill"}

\* connectSocket returned an error
ConnectFailed ==
    /\ Called("Socket")
    /\ pc \in {"return", "exit", "exited"}
    /\ ~Called("Write")

\* syscall.Write returned an error
WriteFailed == Len(writes) = 1 /\ writes[1].taken < 0

\* the first read returned an error or no byte
FirstReadFailed == Called("Read") /\ firstRead = <<>>

\* C17: the stages run at most once each and in the order EnsureListener,
\* Connect, SendRequest, first read, Streaming; when a stage fails no later
\* stage runs, nothing goes to the output sink, and Jattach returns 1.
C17_StagesInOrderAndFailureEnds ==
    /\ \A c \in {"Kill", "Socket", "Connect", "Write", "Read"} : CallCount(c) <= 1
    /\ \A c \in TriggerCalls : Called(c) /\ Called("Socket")
                                  => FirstCall(c) < FirstCall("Socket")
    /\ CalledAfter("Socket", "Connect")
    /\ CalledAfter("Connect", "Write")
    /\ CalledAfter("Write", "Read")
    /\ SentToSink => (Called("Read") /\ firstRead # <<>>)
    /\ ListenerStartFailed => ~Called("Socket")
    /\ ConnectFailed => ~Called("Write")
    /\ WriteFailed => ~Called("Read")
    /\ (ListenerStartFailed \/ ConnectFailed \/ WriteFailed \/ FirstReadFailed)
         => /\ ~SentToSink
            /\ pc \in {"return", "exit", "exited"}
            /\ exitCode = 1

C17_FirstReadFailedAndExited ==
    /\ FirstReadFailed /\ writes # <<>> /\ writes[1].taken = Len(writes[1].request)
    /\ exited /\ exitCode = 1 /\ stdout = <<>>

\* C18: a descriptor opened by connectSocket is closed exactly once, and
\* before jattachHotspot has returned, on every exit path.
C18_DescriptorClosedOnce ==
    /\ fdClosed <= fdOpened
    /\ fdOpened <= 1
    /\ (Returned \/ outClosed > 0) => fdClosed = fdOpened

C18_ClosedAfterCompletedExchange ==
    Returned /\ Completed /\ fdOpened = 1 /\ fdClosed = 1

\* C19: the signal is sent at most once, only after a trigger file was
\* created, with that file in place; the file stays while the loop polls and
\* is removed only after the signal, once the socket is seen or the attempts
\* are used up.
C19_SignalOnceWithTriggerInPlace ==
    /\ Len(kills) <= 1
    /\ \A k \in 1..Len(kills) : kills[k].files = {path}
    /\ Called("Kill") => (Called("Create preferred")
                          /\ FirstCall("Create preferred") < FirstCall("Kill"))
    /\ pc = "Poll" => files = {path}
    /\ Called("Remove trigger") =>
         /\ Called("Kill") /\ FirstCall("Kill") < FirstCall("Remove trigger")
         /\ CallCount("Remove trigger") = 1
         /\ (sock = "socket" \/ i = 300)

C19_TriggerRemovedAfterSocketSeen ==
    /\ Called("Remove trigger") /\ Len(kills) = 1 /\ pc = "connect"
    /\ kills[1].files = {path} /\ path.dir = "tmp" /\ files = {}

\* the preferred file was created and belongs to the caller
PreferredCreatedAndOwned ==
    prefOutcome \in {"mine", "mine, close failed"}

\* C20: the preferred path is the trigger file exactly when it could be
\* created and is owned by the caller afterwards; otherwise it is removed and
\* the fallback is created and used; when the fallback cannot be created
\* there is no signal and no polling.
C20_PreferredOnlyWhenOwned ==
    /\ pc \in {"Kill", "Poll"} =>
         /\ (path.dir = "cwd") <=> PreferredCreatedAndOwned
         /\ path.dir = "tmp" =>
              (Called("Remove preferred") /\ Called("Create fallback"))
         /\ files = {path}
    /\ (Called("Create fallback") /\ ~Called("Kill")
          /\ pc \notin {"CreateFallback", "Kill"})
         => (kills = <<>> /\ ~slept /\ exitCode = 1)
====
